---- MODULE Spec2Model ----
(***************************************************************************)
(* fastapi-batteries: the generic CRUD helper                              *)
(* (src/src/fastapi_batteries/crud/__init__.py) over one SQLAlchemy        *)
(* session.  The Record type is the one of examples/crud.py: a primary key *)
(* id (MixinId), a data column first_name and the soft-delete column   *)
(* is_deleted (MixinIsDeleted).                                          *)
(*                                                                         *)
(* State: the rows the session sees inside its transaction (table), the  *)
(* rows as of the last commit (committed), whether the session is inside *)
(* a transaction (inTx), the number of writes not yet committed          *)
(* (pending) and the outcome of the last call (ret).                   *)
(***************************************************************************)
EXTENDS Integers, Sequences, FiniteSets, TLC

VARIABLES table, committed, inTx, pending, ret

vars == <<table, committed, inTx, pending, ret>>

(***************************************************************************)
(* Bounds of the model.                                                    *)
(***************************************************************************)
\* largest primary key of the tables the query operations are applied to
MaxRows == 5
\* largest offset / limit / page / size of a pagination descriptor
MaxOffset == 2
MaxLimit == 2
MaxPage == 2
MaxSize == 2
\* largest n given to exist_n
MaxN == 3
\* largest primary key of the table the mutating operations work on
MaxId == 2
\* most Create / Upsert inputs in one sequence
MaxBatch == 2
\* most commit=False calls in one open transaction
MaxPending == 2
\* largest primary key of the tables a call runs against while another
\* session commits
MaxConcRows == 2
\* commits of the other session while one call runs
MaxOther == 1

(***************************************************************************)
(* Values.                                                                 *)
(***************************************************************************)
\* Python's None where a string is expected (a column value, a message)
None == "None"

Names == {"a", "b"}

\* CRUD(model=User, resource_name="User"), examples/crud.py
ResourceName == "User"

\* self.err_messages[404]
ErrMessage404 == ResourceName \o " not found"

HTTP_404_NOT_FOUND == 404

HTTP_400_BAD_REQUEST == 400

\* one persisted Record
Row(i, n, d) == [id |-> i, first_name |-> n, is_deleted |-> d]

Min(a, b) == IF a < b THEN a ELSE b

Max(a, b) == IF a > b THEN a ELSE b

\* Python truthiness of a str | None
TruthyStr(s) == s # None /\ s # ""

\* a or b over str | None
OrStr(a, b) == IF TruthyStr(a) THEN a ELSE b

\* a or b over int
OrInt(a, b) == IF a # 0 THEN a ELSE b

(***************************************************************************)
(* Results of a call: a returned value (tagged by its Python type) or a    *)
(* raised exception.                                                       *)
(***************************************************************************)
NoneValue == [t |-> "none"]

RecordValue(r) == [t |-> "record", rec |-> r]

ListValue(s) == [t |-> "list", items |-> s]

\* RecordsWithCount: the tuple (records, total)
PageValue(s, n) == [t |-> "page", items |-> s, total |-> n]

BoolValue(b) == [t |-> "bool", b |-> b]

IntValue(n) == [t |-> "int", n |-> n]

\* the tuple (offset, limit)
PairValue(o, l) == [t |-> "pair", offset |-> o, limit |-> l]

Return(v) == [kind |-> "return", value |-> v]

Raise(e) == [kind |-> "raise", exc |-> e]

APIException(st, ti) == [type |-> "APIException", status |-> st, title |-> ti]

MultipleResultsFound == [type |-> "MultipleResultsFound", status |-> 0, title |-> ""]

ValueError(msg) == [type |-> "ValueError", status |-> 0, title |-> msg]

\* an error of the session itself (connection lost, statement rejected)
DBAPIError == [type |-> "DBAPIError", status |-> 0, title |-> ""]

(***************************************************************************)
(* Select statements.  cols is what the statement selects ("model": the    *)
(* Record entity, "one": the literal 1, "columns": the columns listed in   *)
(* columns); where is the set of criteria, all over columns of the       *)
(* Record; limit = NoLimit and offset = 0 when not set.                    *)
(***************************************************************************)
NoLimit == -1

\* self.model.__mapper__.columns.keys()
ModelColumns == <<"id", "first_name", "is_deleted">>

SeqToSet(seq) == {seq[k] : k \in 1..Len(seq)}

NameEq(n) == [kind |-> "name", name |-> n, id |-> 0]

IdEq(i) == [kind |-> "id", name |-> "", id |-> i]

Matches(r, f) == IF f.kind = "name" THEN r.first_name = f.name ELSE r.id = f.id

\* select(self.model)
SelectModel ==
    [cols |-> "model", columns |-> ModelColumns, where |-> {}, limit |-> NoLimit,
     offset |-> 0]

\* select(User.first_name, User.is_active), ...: a select of listed columns
SelectColumns(cs) ==
    [cols |-> "columns", columns |-> cs, where |-> {}, limit |-> NoLimit, offset |-> 0]

\* select(1)
SelectOne ==
    [cols |-> "one", columns |-> <<>>, where |-> {}, limit |-> NoLimit, offset |-> 0]

Where(s, f) == [s EXCEPT !.where = @ \cup {f}]

Limit(s, l) == [s EXCEPT !.limit = l]

Offset(s, o) == [s EXCEPT !.offset = o]

\* Select.with_only_columns(1): the columns clause is replaced, and with it
\* (maintain_column_froms=False) the FROM entries the old columns implied
WithOnlyColumnsOne(s) == [s EXCEPT !.cols = "one", !.columns = <<>>]

\* The FROM list SQLAlchemy derives for a statement without select_from():
\* the tables of the columns clause and of the WHERE criteria.
HasFrom(s) == s.cols \in {"model", "columns"} \/ s.where # {}

(***************************************************************************)
(* Execution of a select on the rows the session sees.                     *)
(***************************************************************************)
RECURSIVE SortedIds(_)
SortedIds(S) ==
    IF S = {} THEN <<>>
    ELSE LET m == CHOOSE x \in S : \A y \in S : x <= y
         IN <<m>> \o SortedIds(S \ {m})

RowOf(t, i) == CHOOSE r \in t : r.id = i

\* the rows of a table in scan order (primary-key order)
TableSeq(t) == LET ids == SortedIds({r.id : r \in t})
               IN [k \in 1..Len(ids) |-> RowOf(t, ids[k])]

\* seq[offset+1 .. offset+limit]
Slice(seq, o, l) ==
    LET hi == IF l = NoLimit THEN Len(seq) ELSE Min(Len(seq), o + l)
    IN SubSeq(seq, o + 1, hi)

\* The result rows of a select: without a FROM list the statement yields its
\* single literal row; with one, the rows of the table that meet every criterion.
Rows(s, t) ==
    LET all == TableSeq(t)
        hit == SelectSeq(all, LAMBDA r : \A f \in s.where : Matches(r, f))
        src == IF HasFrom(s) THEN hit ELSE <<Row(0, None, FALSE)>>
        cut == Slice(src, s.offset, s.limit)
    IN CASE s.cols = "model" -> cut
         [] s.cols = "columns" ->
              [k \in 1..Len(cut) |-> [j \in 1..Len(s.columns) |-> cut[k][s.columns[j]]]]
         [] OTHER -> [k \in 1..Len(cut) |-> 1]

\* Result.unique(): later rows equal to an earlier one are dropped
RECURSIVE Unique(_)
Unique(seq) ==
    IF seq = <<>> THEN <<>>
    ELSE LET front == Unique(SubSeq(seq, 1, Len(seq) - 1))
             last == seq[Len(seq)]
         IN IF \E k \in 1..Len(front) : front[k] = last THEN front
            ELSE Append(front, last)

(***************************************************************************)
(* Query customizers: the select_statement callables.                      *)
(*   identity : lambda s: s                     (the default)              *)
(*   where    : lambda s: s.where(criterion)                               *)
(*   const    : lambda _: statement             (examples/crud.py)         *)
(***************************************************************************)
Identity == [c |-> "identity", flt |-> IdEq(0), stmt |-> SelectOne]

AddWhere(f) == [c |-> "where", flt |-> f, stmt |-> SelectOne]

Const(s) == [c |-> "const", flt |-> IdEq(0), stmt |-> s]

ApplyCustomizer(c, s) ==
    CASE c.c = "identity" -> s
      [] c.c = "where" -> Where(s, c.flt)
      [] c.c = "const" -> c.stmt

Filters == {NameEq(n) : n \in Names} \cup {IdEq(1)}

Customizers ==
    {Identity, Const(SelectModel)}
    \cup {AddWhere(f) : f \in Filters}
    \cup {Const(Where(SelectModel, f)) : f \in Filters}

\* the rows of the Record a customizer is about: those meeting the criteria it
\* adds (all rows when it adds none)
CriteriaOf(c) ==
    CASE c.c = "identity" -> {}
      [] c.c = "where" -> {c.flt}
      [] c.c = "const" -> c.stmt.where

Matching(c, t) == {r \in t : \A f \in CriteriaOf(c) : Matches(r, f)}

(***************************************************************************)
(* Pagination descriptors.                                                 *)
(***************************************************************************)
NoPagination == [kind |-> "none", page |-> 0, size |-> 0, offset |-> 0, limit |-> 0]

PaginationPageSize(p, s) ==
    [kind |-> "page_size", page |-> p, size |-> s, offset |-> 0, limit |-> 0]

PaginationOffsetLimit(o, l) ==
    [kind |-> "offset_limit", page |-> 0, size |-> 0, offset |-> o, limit |-> l]

Paginations ==
    {NoPagination}
    \cup {PaginationPageSize(p, s) : p \in 1..MaxPage, s \in 1..MaxSize}
    \cup {PaginationOffsetLimit(o, l) : o \in 0..MaxOffset, l \in 1..MaxLimit}

\* a variant that converts without validating its arguments
page_size_to_offset_limit_unchecked(page, size) ==
    Return(PairValue((page - 1) * size, size))

\* fastapi_batteries.utils.pagination.page_size_to_offset_limit
page_size_to_offset_limit(page, size) ==
    IF page < 1 THEN Raise(ValueError("Page must be greater than 0"))
    ELSE IF size < 1 THEN Raise(ValueError("Size must be greater than 0"))
    ELSE Return(PairValue((page - 1) * size, size))

(***************************************************************************)
(* The read operations of CRUD, as functions of the rows t the session     *)
(* sees.                                                                   *)
(***************************************************************************)
\* count, had it built its subquery on select(1) as exist does
count_from_literal(t, c) ==
    LET count_select_from == ApplyCustomizer(c, SelectOne)
        result == <<Len(Rows(count_select_from, t))>>
    IN IF result = <<>> THEN 0 ELSE OrInt(result[1], 0)

\* CRUD.count: SELECT COUNT(*) FROM (customized select) -- one row -- and
\* result.first() or 0
count(t, c) ==
    LET count_select_from == ApplyCustomizer(c, SelectModel)
        result == <<Len(Rows(count_select_from, t))>>
    IN IF result = <<>> THEN 0 ELSE OrInt(result[1], 0)

\* NormalizePagination, had it taken the pair of a page/size pagination as it is
NormalizePagination_unconverted(p) ==
    IF p.kind = "page_size" THEN Return(PairValue(p.page, p.size))
    ELSE Return(PairValue(p.offset, p.limit))

\* get_multi / get_multi_for_cols: the (offset, limit) of a pagination
NormalizePagination(p) ==
    IF p.kind = "page_size" THEN page_size_to_offset_limit(p.page, p.size)
    ELSE Return(PairValue(p.offset, p.limit))

\* get_multi / get_multi_for_cols: the statement that is executed,
\* select_statement.limit(limit).offset(offset) under a pagination
Paginate(select_statement, p) ==
    LET ol == NormalizePagination(p).value
    IN IF p.kind = "none" THEN select_statement
       ELSE Offset(Limit(select_statement, ol.limit), ol.offset)

\* the statement get_multi hands to db.scalars
get_multi_statement(p, c) == Paginate(ApplyCustomizer(c, SelectModel), p)

\* get_multi, had it counted the rows of the paginated statement
get_multi_total_of_page(t, p, c) ==
    LET records == Unique(Rows(get_multi_statement(p, c), t))
    IN IF p.kind # "none"
       THEN Return(PageValue(records, count(t, Const(get_multi_statement(p, c)))))
       ELSE Return(ListValue(records))

\* CRUD.get_multi
get_multi(t, p, c) ==
    LET _select_statement == ApplyCustomizer(c, SelectModel)
    IN IF p.kind # "none" /\ NormalizePagination(p).kind = "raise"
       THEN NormalizePagination(p)
       ELSE LET records == Unique(Rows(get_multi_statement(p, c), t))
            IN IF p.kind # "none"
               THEN Return(PageValue(records, count(t, Const(_select_statement))))
               ELSE Return(ListValue(records))

\* Result.mappings(): each row keyed by its column names
Mappings(rows, columns) ==
    [k \in 1..Len(rows) |->
        [col \in SeqToSet(columns) |->
            rows[k][CHOOSE j \in 1..Len(columns) : columns[j] = col]]]

\* CRUD.get_multi_for_cols
get_multi_for_cols(t, p, select_statement, as_mappings) ==
    IF SeqToSet(select_statement.columns) = SeqToSet(ModelColumns)
    THEN Raise(ValueError("Use get_multi method instead while fetching all columns"))
    ELSE IF p.kind # "none" /\ NormalizePagination(p).kind = "raise"
    THEN NormalizePagination(p)
    ELSE LET rows == Unique(Rows(Paginate(select_statement, p), t))
             records == IF as_mappings THEN Mappings(rows, select_statement.columns)
                        ELSE rows
         IN IF p.kind # "none"
            THEN Return(PageValue(records, count(t, Const(select_statement))))
            ELSE Return(ListValue(records))

\* a row as result.tuples() and result.mappings() hand it out
TupleValue(row) == [t |-> "tuple", row |-> row]

MappingValue(row) == [t |-> "mapping", row |-> row]

\* Result.tuples(): a select of the model yields one-element rows that hold
\* the record, a select of columns rows of column values
RowTuples(select_statement, rows) ==
    IF select_statement.cols = "model" THEN [k \in 1..Len(rows) |-> <<rows[k]>>]
    ELSE rows

\* Result.mappings(): the same rows keyed by entity or column name
RowMappings(select_statement, rows) ==
    IF select_statement.cols = "model"
    THEN [k \in 1..Len(rows) |-> [entity \in {ResourceName} |-> rows[k]]]
    ELSE Mappings(rows, select_statement.columns)

\* CRUD.get_one_for_cols
get_one_for_cols(t, select_statement, suppress_multiple_result_exc, as_mappings) ==
    LET rows == Rows(select_statement, t)
    IN CASE Len(rows) = 0 -> Return(NoneValue)
         [] Len(rows) = 1 ->
              IF as_mappings
              THEN Return(MappingValue(RowMappings(select_statement, rows)[1]))
              ELSE Return(TupleValue(RowTuples(select_statement, rows)[1]))
         [] OTHER -> IF ~suppress_multiple_result_exc
                     THEN Raise(MultipleResultsFound)
                     ELSE Return(NoneValue)

\* CRUD.get_one_for_cols_or_404
get_one_for_cols_or_404(t, select_statement, msg_404, msg_multiple_results_exc, as_mappings) ==
    LET result == get_one_for_cols(t, select_statement, FALSE, as_mappings)
    IN CASE result.kind = "raise" ->
              Raise(APIException(HTTP_400_BAD_REQUEST, msg_multiple_results_exc))
         [] result.kind = "return" /\ result.value.t # "none" -> result
         [] OTHER ->
              Raise(APIException(HTTP_404_NOT_FOUND, OrStr(msg_404, ErrMessage404)))

\* CRUD.exist: SELECT EXISTS (SELECT 1 ...) and result or False
exist(t, c) ==
    LET base_statement == WithOnlyColumnsOne(ApplyCustomizer(c, SelectOne))
        result == Len(Rows(base_statement, t)) > 0
    IN Return(BoolValue(result \/ FALSE))

\* a variant of exist_n that looks at n only after the query has run
exist_n_run_late_check(t, c, n) ==
    LET base_statement ==
            Limit(WithOnlyColumnsOne(ApplyCustomizer(c, SelectOne)), Max(n + 1, 0))
        records == Rows(base_statement, t)
    IN [out |-> IF n < 0 THEN Raise(ValueError("n must be greater than or equal to 0"))
                ELSE Return(BoolValue(Len(records) = n)),
        applied |-> 1, calls |-> <<"scalars">>, records |-> records]

\* a variant of exist_n that fetches every row of the customized statement
exist_n_run_unlimited(t, c, n) ==
    IF n < 0
    THEN [out |-> Raise(ValueError("n must be greater than or equal to 0")),
          applied |-> 0, calls |-> <<>>, records |-> <<>>]
    ELSE LET base_statement == WithOnlyColumnsOne(ApplyCustomizer(c, SelectOne))
             records == Rows(base_statement, t)
         IN [out |-> Return(BoolValue(Len(records) = n)),
             applied |-> 1, calls |-> <<"scalars">>, records |-> records]

\* CRUD.exist_n step by step: its result, how often it applied the
\* customizer, its calls on the session and the rows result.all() built
exist_n_run(t, c, n) ==
    IF n < 0
    THEN [out |-> Raise(ValueError("n must be greater than or equal to 0")),
          applied |-> 0, calls |-> <<>>, records |-> <<>>]
    ELSE LET base_statement ==
                 Limit(WithOnlyColumnsOne(ApplyCustomizer(c, SelectOne)), n + 1)
             records == Rows(base_statement, t)
         IN [out |-> Return(BoolValue(Len(records) = n)),
             applied |-> 1, calls |-> <<"scalars">>, records |-> records]

\* CRUD.exist_n
exist_n(t, c, n) == exist_n_run(t, c, n).out

\* get_one, had it suppressed every exception under suppress_multiple_result_exc
get_one_suppress_all(t, c, suppress_multiple_result_exc, fault) ==
    LET rows == Unique(Rows(ApplyCustomizer(c, SelectModel), t))
    IN CASE fault \/ Len(rows) > 1 ->
              IF suppress_multiple_result_exc THEN Return(NoneValue)
              ELSE IF fault THEN Raise(DBAPIError) ELSE Raise(MultipleResultsFound)
         [] Len(rows) = 1 -> Return(RecordValue(rows[1]))
         [] OTHER -> Return(NoneValue)

\* CRUD.get_one; fault: the session's db.scalars raises
get_one(t, c, suppress_multiple_result_exc, fault) ==
    IF fault THEN Raise(DBAPIError)
    ELSE LET rows == Unique(Rows(ApplyCustomizer(c, SelectModel), t))
         IN CASE Len(rows) = 0 -> Return(NoneValue)
              [] Len(rows) = 1 -> Return(RecordValue(rows[1]))
              [] OTHER -> IF ~suppress_multiple_result_exc
                          THEN Raise(MultipleResultsFound)
                          ELSE Return(NoneValue)

\* get_one_or_404, had it not caught MultipleResultsFound
get_one_or_404_uncaught(t, c, msg_404, msg_multiple_results_exc, fault) ==
    LET result == get_one(t, c, FALSE, fault)
    IN CASE result.kind = "raise" -> result
         [] result.kind = "return" /\ result.value.t = "record" -> result
         [] OTHER ->
              Raise(APIException(HTTP_404_NOT_FOUND, OrStr(msg_404, ErrMessage404)))

\* CRUD.get_one_or_404
get_one_or_404(t, c, msg_404, msg_multiple_results_exc, fault) ==
    LET result == get_one(t, c, FALSE, fault)
    IN CASE result.kind = "raise" /\ result.exc.type = "MultipleResultsFound" ->
              Raise(APIException(HTTP_400_BAD_REQUEST, msg_multiple_results_exc))
         [] result.kind = "raise" /\ result.exc.type # "MultipleResultsFound" ->
              result
         [] result.kind = "return" /\ result.value.t = "record" -> result
         [] OTHER ->
              Raise(APIException(HTTP_404_NOT_FOUND, OrStr(msg_404, ErrMessage404)))

(***************************************************************************)
(* The read operations as steps of a session.  A statement begins the      *)
(* session's transaction when none is open (autobegin).                    *)
(***************************************************************************)
Messages404 == {None, "", "No such user"}

MsgMultiple == "Multiple users found"

\* The caller is sequential: it makes a call when it holds no result of an
\* earlier one (ret = NoCall) and takes the result before the next call.
NoCall == [op |-> "none"]

Idle == ret = NoCall

TakeResult == ret # NoCall /\ ret' = NoCall /\ UNCHANGED <<table, committed, pending, inTx>>

ReadFrame == inTx' = TRUE /\ UNCHANGED <<table, committed, pending>>

PageSizeToOffsetLimit ==
    \E page \in -1..MaxPage, size \in -1..MaxSize :
        /\ Idle
        /\ ret' = [op |-> "page_size_to_offset_limit", page |-> page, size |-> size,
                   out |-> page_size_to_offset_limit(page, size)]
        /\ UNCHANGED <<table, committed, pending, inTx>>

GetMulti ==
    \E p \in Paginations, c \in Customizers :
        /\ Idle
        /\ ret' = [op |-> "get_multi", pagination |-> p, customizer |-> c,
                   stmt |-> get_multi_statement(p, c),
                   out |-> get_multi(table, p, c)]
        /\ ReadFrame

\* the select statements given to get_multi_for_cols
ColumnStatements ==
    LET base == {SelectColumns(<<"first_name", "is_deleted">>),
                 SelectColumns(<<"id", "first_name">>),
                 SelectColumns(ModelColumns), SelectModel}
    IN base \cup {Where(s, NameEq("a")) : s \in base}

GetMultiForCols ==
    \E p \in Paginations, s \in ColumnStatements, m \in BOOLEAN :
        /\ Idle
        /\ ret' = [op |-> "get_multi_for_cols", pagination |-> p, select_statement |-> s,
                   as_mappings |-> m, stmt |-> Paginate(s, p),
                   out |-> get_multi_for_cols(table, p, s, m),
                   calls |-> IF get_multi_for_cols(table, p, s, m).kind = "raise"
                             THEN <<>>
                             ELSE IF p.kind = "none" THEN <<"execute">>
                             ELSE <<"execute", "scalars">>]
        /\ IF get_multi_for_cols(table, p, s, m).kind = "raise"
           THEN UNCHANGED <<table, committed, pending, inTx>>
           ELSE ReadFrame

Count ==
    \E c \in Customizers :
        /\ Idle
        /\ ret' = [op |-> "count", customizer |-> c,
                   out |-> Return(IntValue(count(table, c)))]
        /\ ReadFrame

Exist ==
    \E c \in Customizers :
        /\ Idle
        /\ ret' = [op |-> "exist", customizer |-> c, out |-> exist(table, c)]
        /\ ReadFrame

ExistN ==
    \E c \in Customizers, n \in -1..MaxN :
        LET r == exist_n_run(table, c, n)
        IN /\ Idle
           /\ ret' = [op |-> "exist_n", customizer |-> c, n |-> n,
                      out |-> exist_n(table, c, n), applied |-> r.applied,
                      calls |-> r.calls, fetched |-> Len(r.records)]
           /\ IF r.calls = <<>> THEN UNCHANGED <<table, committed, pending, inTx>>
              ELSE ReadFrame

GetOne ==
    \E c \in Customizers, s \in BOOLEAN, fault \in BOOLEAN :
        /\ Idle
        /\ ret' = [op |-> "get_one", customizer |-> c, suppress |-> s,
                   fault |-> fault, out |-> get_one(table, c, s, fault)]
        /\ ReadFrame

GetOneOr404 ==
    \E c \in Customizers, m \in Messages404, fault \in BOOLEAN :
        /\ Idle
        /\ ret' = [op |-> "get_one_or_404", customizer |-> c, msg_404 |-> m,
                   msg_multiple |-> MsgMultiple, fault |-> fault,
                   out |-> get_one_or_404(table, c, m, MsgMultiple, fault)]
        /\ ReadFrame

GetOneForCols ==
    \E s \in ColumnStatements, sup \in BOOLEAN, m \in BOOLEAN :
        /\ Idle
        /\ ret' = [op |-> "get_one_for_cols", select_statement |-> s, suppress |-> sup,
                   as_mappings |-> m, out |-> get_one_for_cols(table, s, sup, m),
                   calls |-> <<"execute">>]
        /\ ReadFrame

GetOneForColsOr404 ==
    \E s \in ColumnStatements, msg \in Messages404, m \in BOOLEAN :
        /\ Idle
        /\ ret' = [op |-> "get_one_for_cols_or_404", select_statement |-> s,
                   msg_404 |-> msg, msg_multiple |-> MsgMultiple, as_mappings |-> m,
                   out |-> get_one_for_cols_or_404(table, s, msg, MsgMultiple, m),
                   calls |-> <<"execute">>]
        /\ ReadFrame

(***************************************************************************)
(* SpecQuery: the read operations applied to every table of at most        *)
(* MaxRows rows.                                                           *)
(***************************************************************************)
QueryRows == {Row(i, n, FALSE) : i \in 1..MaxRows, n \in Names}

QueryTables == {t \in SUBSET QueryRows : \A r1, r2 \in t : r1.id = r2.id => r1 = r2}

InitQuery ==
    /\ table \in QueryTables
    /\ committed = table
    /\ inTx = FALSE
    /\ pending = 0
    /\ ret = NoCall

NextQuery ==
    \/ PageSizeToOffsetLimit
    \/ GetMulti
    \/ GetMultiForCols
    \/ Count
    \/ Exist
    \/ ExistN
    \/ GetOne
    \/ GetOneOr404
    \/ GetOneForCols
    \/ GetOneForColsOr404
    \/ TakeResult

SpecQuery == InitQuery /\ [][NextQuery]_vars

(***************************************************************************)
(* Properties of the read operations (checked under SpecQuery).            *)
(***************************************************************************)
Items(v) == SeqToSet(v.items)

NoDuplicates(seq) == \A j, k \in 1..Len(seq) : seq[j] = seq[k] => j = k

\* C1: get_multi without pagination returns all records matching the
\* customizer and no total; with a pagination it returns (records, total),
\* records being matching rows and total the number of rows matching the same
\* customizer with limit/offset left out; over 5 matching rows offset=0,
\* limit=2 gives exactly 2 records and total 5.
C1_GetMultiTotal ==
    ret.op = "get_multi" =>
        LET m == Matching(ret.customizer, table)
            v == ret.out.value
        IN /\ ret.out.kind = "return"
           /\ ret.pagination.kind = "none" =>
                 /\ v.t = "list"
                 /\ Items(v) = m
                 /\ Len(v.items) = Cardinality(m)
           /\ ret.pagination.kind # "none" =>
                 /\ v.t = "page"
                 /\ v.total = Cardinality(m)
                 /\ Items(v) \subseteq m
                 /\ NoDuplicates(v.items)
                 /\ Len(v.items) <= ret.stmt.limit
           /\ (ret.pagination = PaginationOffsetLimit(0, 2) /\ Cardinality(m) = 5) =>
                 (Len(v.items) = 2 /\ v.total = 5)

C1_Witness ==
    /\ ret.op = "get_multi"
    /\ ret.pagination = PaginationOffsetLimit(0, 2)
    /\ ret.customizer = AddWhere(NameEq("a"))
    /\ Cardinality(Matching(ret.customizer, table)) = 5
    /\ Len(ret.out.value.items) = 2
    /\ ret.out.value.total = 5

\* C2: for page >= 1 and size >= 1 page_size_to_offset_limit(page, size)
\* returns (offset, limit) = ((page-1)*size, size), so offset >= 0 and
\* limit >= 1; get_multi and get_multi_for_cols execute their statement with
\* exactly this limit and offset when given a page/size pagination.
C2_PageSize ==
    /\ (ret.op = "page_size_to_offset_limit" /\ ret.page >= 1 /\ ret.size >= 1) =>
          /\ ret.out = Return(PairValue((ret.page - 1) * ret.size, ret.size))
          /\ ret.out.value.offset >= 0
          /\ ret.out.value.limit >= 1
    /\ (ret.op = "get_multi" /\ ret.pagination.kind = "page_size") =>
          /\ ret.out.kind = "return"
          /\ ret.stmt = Offset(Limit(ApplyCustomizer(ret.customizer, SelectModel),
                                     ret.pagination.size),
                               (ret.pagination.page - 1) * ret.pagination.size)
    /\ (ret.op = "get_multi_for_cols" /\ ret.pagination.kind = "page_size"
          /\ ret.out.kind = "return") =>
          ret.stmt = Offset(Limit(ret.select_statement, ret.pagination.size),
                            (ret.pagination.page - 1) * ret.pagination.size)

C2_Witness ==
    /\ ret.op = "get_multi_for_cols"
    /\ ret.pagination = PaginationPageSize(2, 2)
    /\ ret.out.kind = "return"
    /\ ret.stmt.offset = 2
    /\ ret.stmt.limit = 2
    /\ Len(ret.out.value.items) = 2

\* C3 (as claimed): for every n >= 0 and every customizer, exist_n returns
\* true if and only if exactly n rows match the customizer.
C3_ExistNIff ==
    (ret.op = "exist_n" /\ ret.n >= 0) =>
        ret.out = Return(BoolValue(Cardinality(Matching(ret.customizer, table)) = ret.n))

\* C4 (as claimed): exist returns true when at least one row matches the
\* customizer and false when none does, never raising, for every customizer
\* including the default one over an empty table.
C4_ExistIff ==
    ret.op = "exist" =>
        ret.out = Return(BoolValue(Matching(ret.customizer, table) # {}))

\* C5: count(customizer) returns the number of rows of the customized query
\* over the Record, the integer 0 when no row matches.
C5_Count ==
    ret.op = "count" =>
        /\ ret.out = Return(IntValue(Cardinality(Matching(ret.customizer, table))))
        /\ ret.out.value.n \in Nat

C5_Witness ==
    /\ ret.op = "count"
    /\ ret.customizer = AddWhere(NameEq("a"))
    /\ table # {}
    /\ ret.out = Return(IntValue(0))

\* C6: get_one returns the record when exactly one matches and none when no
\* record matches; with several matches it raises MultipleResultsFound unless
\* suppress_multiple is set, and then returns none.  An error of the session
\* is never suppressed.
C6_GetOne ==
    ret.op = "get_one" =>
        LET m == Matching(ret.customizer, table)
        IN IF ret.fault THEN ret.out = Raise(DBAPIError)
           ELSE CASE Cardinality(m) = 0 -> ret.out = Return(NoneValue)
                  [] Cardinality(m) = 1 ->
                       ret.out = Return(RecordValue(CHOOSE r \in m : TRUE))
                  [] OTHER ->
                       ret.out = IF ret.suppress THEN Return(NoneValue)
                                 ELSE Raise(MultipleResultsFound)

C6_Witness ==
    /\ ret.op = "get_one"
    /\ ~ret.fault
    /\ ret.suppress
    /\ Cardinality(Matching(ret.customizer, table)) > 1
    /\ ret.out = Return(NoneValue)

\* C7 (as claimed): get_one_or_404 returns the record when exactly one
\* matches; when none matches it raises the 404 APIException titled msg_404
\* or, when msg_404 is not given, "<resource_name> not found"; when several
\* match it raises the 400 APIException titled msg_multiple.
C7_TitleIsGivenMessage ==
    (ret.op = "get_one_or_404" /\ ~ret.fault) =>
        LET m == Matching(ret.customizer, table)
        IN CASE Cardinality(m) = 0 ->
                  ret.out = Raise(APIException(404,
                      IF ret.msg_404 # None THEN ret.msg_404 ELSE "User not found"))
             [] Cardinality(m) = 1 ->
                  ret.out = Return(RecordValue(CHOOSE r \in m : TRUE))
             [] OTHER -> ret.out = Raise(APIException(400, ret.msg_multiple))

\* C7 (amended): as claimed, except that an empty msg_404 counts as not
\* given: the 404 title is msg_404 when it is given and not empty, and
\* "<resource_name> not found" otherwise; MultipleResultsFound never reaches
\* the caller.
C7_GetOneOr404 ==
    ret.op = "get_one_or_404" =>
        LET m == Matching(ret.customizer, table)
        IN /\ ret.out.kind = "raise" => ret.out.exc.type # "MultipleResultsFound"
           /\ ~ret.fault =>
                CASE Cardinality(m) = 0 ->
                       ret.out = Raise(APIException(404,
                           IF ret.msg_404 \notin {None, ""} THEN ret.msg_404
                           ELSE "User not found"))
                  [] Cardinality(m) = 1 ->
                       ret.out = Return(RecordValue(CHOOSE r \in m : TRUE))
                  [] OTHER -> ret.out = Raise(APIException(400, ret.msg_multiple))

C7_Witness ==
    /\ ret.op = "get_one_or_404"
    /\ ~ret.fault
    /\ ret.msg_404 = ""
    /\ Matching(ret.customizer, table) = {}
    /\ table # {}
    /\ ret.out = Raise(APIException(404, "User not found"))

(***************************************************************************)
(* The mutating operations.  Each yields the rows the session sees after   *)
(* it, its result, and the calls it makes on the session, in order.        *)
(* A modified instance given to db.add is written by the flush that        *)
(* precedes the next statement and the commit, so the session's view       *)
(* changes with the assignment.                                            *)
(***************************************************************************)
Ids(t) == {r.id : r \in t}

\* the primary key the database generates for the next inserted row
\* (INTEGER PRIMARY KEY of MixinId: one more than the largest id in use)
NextId(t) == IF t = {} THEN 1 ELSE (CHOOSE i \in Ids(t) : \A j \in Ids(t) : j <= i) + 1

\* Create inputs: one SchemaCreate, or a RootModel of a sequence of them;
\* items holds the first_name of each input
CreateOne(n) == [kind |-> "single", items |-> <<n>>]

CreateMany(ns) == [kind |-> "sequence", items |-> ns]

\* the rows insert(self.model).values(new_data.model_dump()) adds, in input
\* order.  Insert.values takes a list as rows only when its first element is
\* a dict: the empty list is values for no column, and the statement is a
\* single-row INSERT in which every column takes its default.
InsertedRows(t, new_data) ==
    IF new_data.items = <<>> THEN <<Row(NextId(t), None, FALSE)>>
    ELSE [k \in 1..Len(new_data.items) |-> Row(NextId(t) + k - 1, new_data.items[k], FALSE)]

\* a variant that commits whatever the flag
CommitCalls_always(commit) == <<"commit">>

\* the session calls that end a mutating operation
CommitCalls(commit) == IF commit THEN <<"commit">> ELSE <<>>

CommitRefreshCalls(commit) == IF commit THEN <<"commit", "refresh">> ELSE <<>>

\* CRUD.create
create(t, new_data, commit, returning) ==
    LET rows == InsertedRows(t, new_data)
        result == IF new_data.kind = "sequence" THEN ListValue(rows)
                  ELSE RecordValue(rows[1])
    IN [table |-> t \cup SeqToSet(rows),
        out |-> IF returning THEN Return(result) ELSE Return(NoneValue),
        calls |-> (IF ~returning THEN <<"execute">>
                   ELSE IF new_data.kind = "sequence" THEN <<"scalars">>
                   ELSE <<"scalar">>) \o CommitCalls(commit)]

\* CRUD.get
get(t, item_id) ==
    IF item_id \in Ids(t) THEN Return(RecordValue(RowOf(t, item_id)))
    ELSE Return(NoneValue)

\* a variant that, as get, returns None for a missing id
get_or_404_none(t, item_id, msg_404) == get(t, item_id)

\* CRUD.get_or_404
get_or_404(t, item_id, msg_404) ==
    LET result == get(t, item_id)
    IN IF result.value.t = "record" THEN result
       ELSE Raise(APIException(HTTP_404_NOT_FOUND, OrStr(msg_404, ErrMessage404)))

\* Patch inputs: a SchemaPatch (its field values, defaults where unset, and
\* the set of fields explicitly set) or a plain dict
PatchFields == {"first_name", "is_deleted"}

PatchDefaults == [first_name |-> None, is_deleted |-> FALSE]

SchemaPatch(values, fields_set) ==
    [kind |-> "schema", fields_set |-> fields_set,
     values |-> [f \in PatchFields |-> IF f \in fields_set THEN values[f]
                                       ELSE PatchDefaults[f]]]

DictPatch(values, keys) ==
    [kind |-> "dict", fields_set |-> keys, values |-> [f \in keys |-> values[f]]]

\* BaseModel.model_dump(exclude_unset=True)
ModelDumpExcludeUnset(item) == [f \in item.fields_set |-> item.values[f]]

\* a variant that dumps every field of the patch input, set or not
PatchedData_all_fields(patched_item) == patched_item.values

\* patched_item if isinstance(patched_item, dict) else model_dump(exclude_unset=True)
PatchedData(patched_item) ==
    IF patched_item.kind = "dict" THEN patched_item.values
    ELSE ModelDumpExcludeUnset(patched_item)

\* for field, val in data.items(): setattr(item_db, field, val)
SetAttrs(item_db, data) ==
    [f \in DOMAIN item_db |-> IF f \in DOMAIN data THEN data[f] ELSE item_db[f]]

\* CRUD.patch, item_db being the session's instance of the row with id item_id
patch(t, item_id, patched_item, commit) ==
    LET item_db == RowOf(t, item_id)
        patched == SetAttrs(item_db, PatchedData(patched_item))
    IN [table |-> (t \ {item_db}) \cup {patched},
        out |-> Return(RecordValue(patched)),
        calls |-> <<"add">> \o CommitRefreshCalls(commit)]

\* self.soft_delete_col_name
SoftDeleteColName == "is_deleted"

\* a variant that removes the row it marks
soft_delete_removes(t, item_id, commit) ==
    LET found == get_or_404(t, item_id, None)
    IN IF found.kind = "raise"
       THEN [table |-> t, out |-> found, calls |-> <<"get">>]
       ELSE LET item_db == found.value.rec
                deleted == [item_db EXCEPT ![SoftDeleteColName] = TRUE]
            IN [table |-> t \ {item_db},
                out |-> Return(RecordValue(deleted)),
                calls |-> <<"get", "add">> \o CommitRefreshCalls(commit)]

\* CRUD.soft_delete
soft_delete(t, item_id, commit) ==
    LET found == get_or_404(t, item_id, None)
    IN IF found.kind = "raise"
       THEN [table |-> t, out |-> found, calls |-> <<"get">>]
       ELSE LET item_db == found.value.rec
                deleted == [item_db EXCEPT ![SoftDeleteColName] = TRUE]
            IN [table |-> (t \ {item_db}) \cup {deleted},
                out |-> Return(RecordValue(deleted)),
                calls |-> <<"get", "add">> \o CommitRefreshCalls(commit)]

\* a variant that reports one removed row whether or not a row matched
delete_always_one(t, item_id, commit) ==
    [table |-> {r \in t : r.id # item_id},
     out |-> Return(IntValue(1)),
     calls |-> <<"execute">> \o CommitCalls(commit)]

\* CRUD.delete (the model has an id attribute)
delete(t, item_id, commit) ==
    LET hit == {r \in t : r.id = item_id}
    IN [table |-> t \ hit,
        out |-> Return(IntValue(Cardinality(hit))),
        calls |-> <<"execute">> \o CommitCalls(commit)]

\* raise AttributeError(f"Model {self.model.__name__} must have 'id' attribute")
AttributeError ==
    [type |-> "AttributeError", status |-> 0, title |-> "Model User must have 'id' attribute"]

\* a variant of CRUD.delete without the hasattr test
delete_on_unchecked(has_id, t, item_id, commit) == delete(t, item_id, commit)

\* CRUD.delete on a model that has (has_id) or lacks an attribute named id
delete_on(has_id, t, item_id, commit) ==
    IF ~has_id THEN [table |-> t, out |-> Raise(AttributeError), calls |-> <<>>]
    ELSE delete(t, item_id, commit)

\* INSERT ... ON CONFLICT (pk) DO UPDATE rejects a statement that proposes
\* the same key twice
CardinalityViolation == [type |-> "CardinalityViolation", status |-> 0, title |-> ""]

\* the rows after each proposed row was inserted, or written over the row
\* with its primary key
RECURSIVE UpsertRows(_, _)
UpsertRows(t, items) ==
    IF items = <<>> THEN t
    ELSE LET item == items[1]
         IN UpsertRows({r \in t : r.id # item.id} \cup {item}, Tail(items))

\* the rows pg_insert(self.model).values(upserted_items.model_dump()) proposes;
\* as in create, the empty list proposes one row of column defaults
ProposedRows(t, upserted_items) ==
    IF upserted_items = <<>> THEN <<Row(NextId(t), None, FALSE)>> ELSE upserted_items

\* CRUD.upsert
upsert(t, upserted_items, commit) ==
    IF ~NoDuplicates([k \in 1..Len(upserted_items) |-> upserted_items[k].id])
    THEN [table |-> t, out |-> Raise(CardinalityViolation), calls |-> <<"execute">>]
    ELSE [table |-> UpsertRows(t, ProposedRows(t, upserted_items)),
          out |-> Return(NoneValue),
          calls |-> <<"execute">> \o CommitCalls(commit)]

(***************************************************************************)
(* The mutating operations as steps of a session.  db.commit() makes the   *)
(* rows the session sees the committed ones and ends the transaction; any  *)
(* other call on the session begins one when none is open.                 *)
(***************************************************************************)
Committed(calls) == \E k \in 1..Len(calls) : calls[k] = "commit"

\* the effect on the session of an operation that made the calls r.calls and
\* left the rows r.table
SessionStep(r) ==
    /\ table' = r.table
    /\ committed' = IF Committed(r.calls) THEN r.table ELSE committed
    /\ pending' = IF Committed(r.calls) THEN 0
                  ELSE IF r.out.kind = "return" THEN pending + 1 ELSE pending
    /\ inTx' = (r.calls[Len(r.calls)] # "commit")

\* a commit=False call joins the open transaction
CanCall(commit) == Idle /\ (commit \/ pending < MaxPending)

NameSeqs == UNION {[1..k -> Names] : k \in 0..MaxBatch}

CreateInputs == {CreateOne(n) : n \in Names} \cup {CreateMany(ns) : ns \in NameSeqs}

Create ==
    \E new_data \in CreateInputs, commit \in BOOLEAN, returning \in BOOLEAN :
        LET r == create(table, new_data, commit, returning)
        IN /\ CanCall(commit)
           /\ NextId(table) + Len(InsertedRows(table, new_data)) - 1 <= MaxId
           /\ SessionStep(r)
           /\ ret' = [op |-> "create", new_data |-> new_data, commit |-> commit,
                      returning |-> returning, out |-> r.out, calls |-> r.calls]

Get ==
    \E item_id \in 1..MaxId :
        /\ Idle
        /\ ret' = [op |-> "get", item_id |-> item_id, out |-> get(table, item_id)]
        /\ ReadFrame

GetOr404 ==
    \E item_id \in 1..MaxId, m \in Messages404 :
        /\ Idle
        /\ ret' = [op |-> "get_or_404", item_id |-> item_id, msg_404 |-> m,
                   out |-> get_or_404(table, item_id, m)]
        /\ ReadFrame

PatchValues == [first_name : {"b", None}, is_deleted : {TRUE}]

PatchInputs ==
    {SchemaPatch(v, fs) : v \in PatchValues, fs \in SUBSET PatchFields}
    \cup {DictPatch(v, fs) : v \in PatchValues, fs \in SUBSET PatchFields}

Patch ==
    \E item_id \in Ids(table), patched_item \in PatchInputs, commit \in BOOLEAN :
        LET r == patch(table, item_id, patched_item, commit)
        IN /\ CanCall(commit)
           /\ SessionStep(r)
           /\ ret' = [op |-> "patch", item_id |-> item_id, patched_item |-> patched_item,
                      commit |-> commit, out |-> r.out, calls |-> r.calls]

SoftDelete ==
    \E item_id \in 1..MaxId, commit \in BOOLEAN :
        LET r == soft_delete(table, item_id, commit)
        IN /\ CanCall(commit)
           /\ SessionStep(r)
           /\ ret' = [op |-> "soft_delete", item_id |-> item_id, commit |-> commit,
                      out |-> r.out, calls |-> r.calls]

Delete ==
    \E has_id \in BOOLEAN, item_id \in 1..MaxId, commit \in BOOLEAN :
        LET r == delete_on(has_id, table, item_id, commit)
        IN /\ CanCall(commit)
           /\ IF r.calls = <<>> THEN UNCHANGED <<table, committed, pending, inTx>>
              ELSE SessionStep(r)
           /\ ret' = [op |-> "delete", has_id |-> has_id, item_id |-> item_id,
                      commit |-> commit, out |-> r.out, calls |-> r.calls]

UpsertItems == {Row(i, n, FALSE) : i \in 1..MaxId, n \in Names}

UpsertInputs == UNION {[1..k -> UpsertItems] : k \in 0..MaxBatch}

Upsert ==
    \E upserted_items \in UpsertInputs, commit \in BOOLEAN :
        LET r == upsert(table, upserted_items, commit)
        IN /\ CanCall(commit)
           /\ upserted_items = <<>> => NextId(table) <= MaxId
           /\ SessionStep(r)
           /\ ret' = [op |-> "upsert", upserted_items |-> upserted_items,
                      commit |-> commit, out |-> r.out, calls |-> r.calls]

\* the caller's db.rollback(): the transaction's writes are undone; undone
\* records how many commit=False calls the transaction held
Rollback ==
    /\ Idle
    /\ inTx
    /\ table' = committed
    /\ pending' = 0
    /\ inTx' = FALSE
    /\ ret' = [op |-> "rollback", undone |-> pending]
    /\ UNCHANGED committed

\* the caller's db.commit() of a transaction batched with commit=False calls
CallerCommit ==
    /\ Idle
    /\ inTx
    /\ committed' = table
    /\ pending' = 0
    /\ inTx' = FALSE
    /\ ret' = [op |-> "commit", undone |-> 0]
    /\ UNCHANGED table

\* the session after create_tables(): no row, no transaction
Init ==
    /\ table = {}
    /\ committed = {}
    /\ inTx = FALSE
    /\ pending = 0
    /\ ret = NoCall

Next ==
    \/ Create
    \/ Get
    \/ GetOr404
    \/ Patch
    \/ SoftDelete
    \/ Delete
    \/ Upsert
    \/ Rollback
    \/ CallerCommit
    \/ TakeResult

Spec == Init /\ [][Next]_vars

(***************************************************************************)
(* One call on a fresh session over a database that holds any table of     *)
(* records: the specification of the claims about what a single call       *)
(* returns and changes.                                                    *)
(***************************************************************************)
CallRows == {Row(i, n, d) : i \in 1..MaxId, n \in Names \cup {None}, d \in BOOLEAN}

CallTables == {t \in SUBSET CallRows : \A r1, r2 \in t : r1.id = r2.id => r1 = r2}

InitCall ==
    /\ table \in CallTables
    /\ committed = table
    /\ inTx = FALSE
    /\ pending = 0
    /\ ret = NoCall

NextCall ==
    \/ Create
    \/ Get
    \/ GetOr404
    \/ Patch
    \/ SoftDelete
    \/ Delete
    \/ Upsert

SpecCall == InitCall /\ [][NextCall]_vars

(***************************************************************************)
(* Claims about the mutating operations.  A step that starts an operation  *)
(* leaves Idle; ret' holds the operation's inputs, result and session      *)
(* calls, table and table' the rows before and after it.                   *)
(***************************************************************************)
MutatingOps == {"create", "patch", "soft_delete", "delete", "upsert"}

StatementCalls == {"execute", "scalar", "scalars"}

WriteCalls == StatementCalls \cup {"add"}

CallsIn(calls, S) == {k \in 1..Len(calls) : calls[k] \in S}

C9_CommitSemantics ==
    [][Idle =>
        /\ ret'.op \in MutatingOps =>
              LET calls == ret'.calls
                  commits == CallsIn(calls, {"commit"})
              IN IF ret'.commit
                 THEN /\ Cardinality(commits) <= 1
                      /\ \A k \in commits : CallsIn(SubSeq(calls, 1, k - 1), WriteCalls) # {}
                      /\ ret'.out.kind = "return" =>
                            /\ Cardinality(commits) = 1
                            /\ committed' = table'
                            /\ pending' = 0
                 ELSE /\ commits = {}
                      /\ CallsIn(calls, {"refresh"}) = {}
                      /\ committed' = committed
                      /\ calls # <<>> => inTx'
                      /\ ret'.out.kind = "return" => pending' = pending + 1
        /\ ret'.op = "rollback" =>
              /\ ret'.undone = pending
              /\ table' = committed
              /\ committed' = committed
              /\ pending' = 0
    ]_vars

\* two commit=false calls were undone by a rollback that left the rows of an
\* earlier commit
C9_Witness ==
    /\ ret.op = "rollback"
    /\ ret.undone = 2
    /\ table = committed
    /\ table # {}

\* C10: patch assigns to the record exactly the fields set in the patch
\* input (the keys of a plain mapping), a field set to null included, leaves
\* every other field of the record and every other record as it was, and
\* returns that record.
C10_PatchFrame ==
    [][(Idle /\ ret'.op = "patch") =>
        LET old == RowOf(table, ret'.item_id)
            item == ret'.patched_item
            out == ret'.out
        IN /\ out.kind = "return"
           /\ out.value.t = "record"
           /\ out.value.rec.id = old.id
           /\ \A f \in PatchFields :
                 out.value.rec[f] = IF f \in item.fields_set THEN item.values[f] ELSE old[f]
           /\ table' = (table \ {old}) \cup {out.value.rec}
    ]_vars

\* a patch input that sets first_name to null and does not set is_deleted
\* was applied to a record whose is_deleted was not the default
C10_Witness ==
    /\ ret.op = "patch"
    /\ ret.patched_item.kind = "schema"
    /\ ret.patched_item.fields_set = {"first_name"}
    /\ ret.patched_item.values["first_name"] = None
    /\ ret.out.value.rec.first_name = None
    /\ ret.out.value.rec.is_deleted = TRUE

\* the index of the last item of a batch that carries the primary key i
LastWith(items, i) ==
    CHOOSE k \in 1..Len(items) :
        items[k].id = i /\ \A j \in 1..Len(items) : items[j].id = i => j <= k

\* C11: upsert of a batch, also one that holds the same primary key more
\* than once, returns and leaves for every key of the batch exactly one
\* stored row, holding the values of the last item with that key; after it
\* no primary key is stored twice.
C11_UpsertLastWins ==
    [][(Idle /\ ret'.op = "upsert") =>
        LET items == ret'.upserted_items
        IN /\ ret'.out.kind = "return"
           /\ \A k \in 1..Len(items) :
                 {r \in table' : r.id = items[k].id} = {items[LastWith(items, items[k].id)]}
           /\ \A r1, r2 \in table' : r1.id = r2.id => r1 = r2
    ]_vars

\* C12: on a model that has an id attribute,
\* delete(id) removes the row with that id and returns the number of
\* rows removed, 1 when the row existed and 0, without error, when it did
\* not; every other row is unchanged, and the id is absent afterwards, so
\* that a second delete of it returns 0.
C12_Delete ==
    [][(Idle /\ ret'.op = "delete" /\ ret'.has_id) =>
        LET item_id == ret'.item_id
        IN /\ ret'.out = Return(IntValue(IF item_id \in Ids(table) THEN 1 ELSE 0))
           /\ table' = {r \in table : r.id # item_id}
           /\ item_id \notin Ids(table')
    ]_vars

\* a delete of an id that no row has returned 0 and left the other row
C12_Witness ==
    /\ ret.op = "delete"
    /\ ret.has_id
    /\ ret.out = Return(IntValue(0))
    /\ ret.item_id \notin Ids(table)
    /\ table # {}
    /\ table = committed

\* C13: soft_delete(id) of a stored record sets its soft-delete column to
\* true, changes no other column and no other record, and keeps the row, so
\* that get(id) returns it; for a missing id it raises the 404 APIException
\* and makes no write and no commit.
C13_SoftDelete ==
    [][(Idle /\ ret'.op = "soft_delete") =>
        LET item_id == ret'.item_id
            hit == {r \in table : r.id = item_id}
        IN IF hit # {}
           THEN LET old == CHOOSE r \in hit : TRUE
                    marked == [id |-> old.id, first_name |-> old.first_name,
                               is_deleted |-> TRUE]
                IN /\ ret'.out = Return(RecordValue(marked))
                   /\ table' = (table \ {old}) \cup {marked}
                   /\ get(table', item_id) = Return(RecordValue(marked))
           ELSE /\ ret'.out.kind = "raise"
                /\ ret'.out.exc.type = "APIException"
                /\ ret'.out.exc.status = 404
                /\ CallsIn(ret'.calls, WriteCalls \cup {"commit"}) = {}
                /\ table' = table
                /\ committed' = committed
    ]_vars

\* a record was marked while a second record, not marked, stayed as it was
C13_Witness ==
    /\ ret.op = "soft_delete"
    /\ ret.out.kind = "return"
    /\ ret.out.value.rec \in table
    /\ ret.out.value.rec.is_deleted
    /\ \E r \in table : r.id # ret.item_id /\ ~r.is_deleted

\* the result of get, and of get_or_404 for a stored id
Lookup(t, item_id) ==
    LET hit == {r \in t : r.id = item_id}
    IN IF hit = {} THEN Return(NoneValue) ELSE Return(RecordValue(CHOOSE r \in hit : TRUE))

\* C14 (as claimed): get(id) returns the record with that primary key, or
\* None without error when absent; get_or_404(id) returns the same record
\* when present and, when absent, raises the 404 APIException titled msg_404
\* or, when msg_404 is not given, "<resource_name> not found".
C14_TitleIsGivenMessage ==
    /\ ret.op = "get" => ret.out = Lookup(table, ret.item_id)
    /\ ret.op = "get_or_404" =>
          IF ret.item_id \in Ids(table) THEN ret.out = Lookup(table, ret.item_id)
          ELSE ret.out = Raise(APIException(404,
                   IF ret.msg_404 # None THEN ret.msg_404 ELSE "User not found"))

\* C14 (amended): as claimed, except that an empty msg_404 counts as not
\* given: the 404 title is msg_404 when it is given and not empty, and
\* "<resource_name> not found" otherwise.
C14_GetOr404 ==
    /\ ret.op = "get" => ret.out = Lookup(table, ret.item_id)
    /\ ret.op = "get_or_404" =>
          IF ret.item_id \in Ids(table) THEN ret.out = Lookup(table, ret.item_id)
          ELSE ret.out = Raise(APIException(404,
                   IF ret.msg_404 \notin {None, ""} THEN ret.msg_404
                   ELSE "User not found"))

\* get_or_404 of a missing id with an empty msg_404 raised the default title
C14_Witness ==
    /\ ret.op = "get_or_404"
    /\ ret.item_id \notin Ids(table)
    /\ ret.msg_404 = ""
    /\ ret.out = Raise(APIException(404, "User not found"))

\* C15: page_size_to_offset_limit raises ValueError "Page must be greater
\* than 0" for every page < 1, and ValueError "Size must be greater than 0"
\* for every size < 1 with page >= 1; in neither case does it return an
\* (offset, limit) pair.
C15_PageSizeErrors ==
    ret.op = "page_size_to_offset_limit" =>
        /\ ret.page < 1 => ret.out = Raise(ValueError("Page must be greater than 0"))
        /\ (ret.page >= 1 /\ ret.size < 1) =>
              ret.out = Raise(ValueError("Size must be greater than 0"))
        /\ (ret.page < 1 \/ ret.size < 1) => ret.out.kind # "return"

\* a call with a valid page and size 0 raised the size error
C15_Witness ==
    /\ ret.op = "page_size_to_offset_limit"
    /\ ret.page = 1
    /\ ret.size = 0
    /\ ret.out.kind = "raise"
    /\ ret.out.exc.title = "Size must be greater than 0"

\* C16: exist_n with n < 0 raises ValueError, and has by then neither
\* applied the customizer nor made any call on the session.
C16_ExistNNegative ==
    (ret.op = "exist_n" /\ ret.n < 0) =>
        /\ ret.out.kind = "raise"
        /\ ret.out.exc.type = "ValueError"
        /\ ret.applied = 0
        /\ ret.calls = <<>>

\* exist_n was called with n = -1 over a table that holds rows
C16_Witness ==
    /\ ret.op = "exist_n"
    /\ ret.n = -1
    /\ ret.out.kind = "raise"
    /\ table # {}

\* C19: exist_n(customizer, n) builds at most n + 1 rows, however many rows
\* match the customizer.
C19_ExistNFetch ==
    (ret.op = "exist_n" /\ ret.out.kind = "return") => ret.fetched <= ret.n + 1

\* exist_n built n + 1 rows where more than n + 1 rows matched
C19_Witness ==
    /\ ret.op = "exist_n"
    /\ ret.out.kind = "return"
    /\ ret.fetched = ret.n + 1
    /\ ret.customizer.c = "where"
    /\ Cardinality(Matching(ret.customizer, table)) > ret.n + 1

ForColsOps == {"get_multi_for_cols", "get_one_for_cols", "get_one_for_cols_or_404"}

\* a result row that is a plain tuple or a mapping keyed by the selected
\* column names, and so not a record
IsProjection(row, select_statement, as_mappings) ==
    IF as_mappings THEN DOMAIN row = SeqToSet(select_statement.columns)
    ELSE Len(row) = Len(select_statement.columns)

\* C17: get_multi_for_cols, get_one_for_cols and get_one_for_cols_or_404
\* called with a statement whose selected columns are all the columns of
\* the model raise ValueError without having executed anything; called with
\* fewer columns, every row they return is a tuple or a mapping keyed by the
\* selected columns, never a record.
C17_ForColsAllColumns ==
    ret.op \in ForColsOps =>
        IF SeqToSet(ret.select_statement.columns) = SeqToSet(ModelColumns)
        THEN /\ ret.out.kind = "raise"
             /\ ret.out.exc.type = "ValueError"
             /\ ret.calls = <<>>
        ELSE ret.out.kind = "return" =>
               CASE ret.out.value.t \in {"list", "page"} ->
                      \A k \in 1..Len(ret.out.value.items) :
                          IsProjection(ret.out.value.items[k], ret.select_statement,
                                       ret.as_mappings)
                 [] ret.out.value.t \in {"tuple", "mapping"} ->
                      /\ ret.as_mappings <=> ret.out.value.t = "mapping"
                      /\ IsProjection(ret.out.value.row, ret.select_statement,
                                      ret.as_mappings)
                 [] OTHER -> ret.out.value.t = "none"

\* C18: delete on a model that has no attribute named id raises
\* AttributeError, whatever the commit flag, without a call on the session:
\* no statement is executed, nothing is committed, no row changes.
C18_DeleteWithoutId ==
    [][(Idle /\ ret'.op = "delete" /\ ~ret'.has_id) =>
        /\ ret'.out.kind = "raise"
        /\ ret'.out.exc.type = "AttributeError"
        /\ ret'.calls = <<>>
        /\ UNCHANGED <<table, committed, inTx>>
    ]_vars

\* delete with commit=True on a model without id raised, and the row with
\* the given id is still stored
C18_Witness ==
    /\ ret.op = "delete"
    /\ ~ret.has_id
    /\ ret.commit
    /\ ret.out.kind = "raise"
    /\ ret.item_id \in Ids(table)

(***************************************************************************)
(* A paginated get_multi beside another session.  get_multi awaits twice   *)
(* on its session, db.scalars for the page and, in count, db.scalars for   *)
(* the total; another request's session can commit between the two.  The   *)
(* engine is created without an isolation level, so the database's default *)
(* decides what the second statement sees: the rows committed by then      *)
(* (READ COMMITTED) or the rows as of the transaction's first statement    *)
(* (REPEATABLE READ and stronger).                                         *)
(***************************************************************************)
IsolationLevels == {"READ COMMITTED", "REPEATABLE READ"}

ConcRows == {Row(i, n, FALSE) : i \in 1..MaxConcRows, n \in Names}

ConcTables == {t \in SUBSET ConcRows : \A r1, r2 \in t : r1.id = r2.id => r1 = r2}

InitConc ==
    /\ table \in ConcTables
    /\ committed = table
    /\ inTx = FALSE
    /\ pending = 0
    /\ ret = NoCall

NotYet == [kind |-> "awaiting"]

\* get_multi up to the first await: the page (or the whole list) is fetched
GetMultiFetch ==
    \E p \in Paginations, c \in Customizers, level \in IsolationLevels :
        LET records == Unique(Rows(get_multi_statement(p, c), table))
        IN /\ Idle
           /\ ret' = [op |-> "get_multi", pagination |-> p, customizer |-> c,
                      isolation |-> level, others |-> 0, records |-> records,
                      pc |-> IF p.kind = "none" THEN "done" ELSE "count",
                      out |-> IF p.kind = "none" THEN Return(ListValue(records))
                              ELSE NotYet]
           /\ ReadFrame

\* another session commits the insert or the delete of one row while the
\* call is between its two statements
OtherSessionCommits ==
    \E rows \in ConcTables :
        /\ ret.op = "get_multi"
        /\ ret.pc = "count"
        /\ ret.others < MaxOther
        /\ \/ \E r \in rows : r \notin committed /\ rows = committed \cup {r}
           \/ \E r \in committed : rows = committed \ {r}
        /\ committed' = rows
        /\ table' = IF ret.isolation = "READ COMMITTED" THEN rows ELSE table
        /\ ret' = [ret EXCEPT !.others = @ + 1]
        /\ UNCHANGED <<inTx, pending>>

\* get_multi from its second await: count runs and (records, total) is returned
GetMultiCount ==
    /\ ret.op = "get_multi"
    /\ ret.pc = "count"
    /\ ret' = [ret EXCEPT
                 !.pc = "done",
                 !.out = Return(PageValue(ret.records,
                             count(table, Const(ApplyCustomizer(ret.customizer,
                                                                SelectModel)))))]
    /\ ReadFrame

NextConc ==
    \/ GetMultiFetch
    \/ OtherSessionCommits
    \/ GetMultiCount

SpecConc == InitConc /\ [][NextConc]_vars

\* C20: a paginated get_multi is atomic with respect to its session: its
\* page query and its count query see the same matching rows, so whenever it
\* returns records, total >= offset + number of records, also when another
\* session commits inserts or deletes while the call runs.
C20_GetMultiAtomic ==
    (ret.op = "get_multi" /\ ret.pc = "done" /\ ret.out.value.t = "page"
        /\ Len(ret.out.value.items) > 0) =>
        ret.out.value.total
            >= NormalizePagination(ret.pagination).value.offset + Len(ret.out.value.items)

\* C21: with no concurrent writer, a paginated get_multi or
\* get_multi_for_cols called with (offset, limit) returns exactly
\* min(limit, max(0, total - offset)) records, total being the total the same
\* call returns, also when a column projection makes several matching rows
\* carry the same values.
C21_PageLength ==
    (ret.op \in {"get_multi", "get_multi_for_cols"} /\ ret.out.kind = "return"
        /\ ret.out.value.t = "page") =>
        LET ol == NormalizePagination(ret.pagination).value
        IN Len(ret.out.value.items)
               = Min(ol.limit, Max(0, ret.out.value.total - ol.offset))

====
